---- MODULE Spec2Model ----
(***************************************************************************)
(* A model of the three command-line tools of the repository:              *)
(*   exit_criteria_checker.py  (the quality gate: evaluate, main)          *)
(*   extract_api.py            (extract_public_api and its entry point)    *)
(*   validate_docstrings.py    (parse_docstring_params, has_return_doc,    *)
(*                              validate_file and its entry point)         *)
(* Every tool is a one-shot process: it reads one input and writes one     *)
(* result.  The state is the input and the list of results of the runs     *)
(* made so far on that same input.                                         *)
(***************************************************************************)
EXTENDS Integers, Sequences, FiniteSets

VARIABLES input, runs

vars == <<input, runs>>

(***************************************************************************)
(* Generic helpers                                                         *)
(***************************************************************************)
RECURSIVE SeqsUpTo(_, _)
SeqsUpTo(S, n) ==
  IF n = 0 THEN {<<>>}
  ELSE LET shorter == SeqsUpTo(S, n - 1)
       IN  shorter \cup {Append(s, x) : s \in {t \in shorter : Len(t) = n - 1}, x \in S}

Range(s) == {s[i] : i \in 1..Len(s)}

\* [x for x in s if Keep(x)]
RECURSIVE Filter(_, _)
Filter(s, keep) ==
  IF s = <<>> THEN <<>>
  ELSE (IF Head(s) \in keep THEN <<Head(s)>> ELSE <<>>) \o Filter(Tail(s), keep)

(***************************************************************************)
(* Part 1: the gate, exit_criteria_checker.py                              *)
(*                                                                         *)
(* A JSON value is a record [t, n, s]: t its type, n its number (a float   *)
(* is held in tenths), s its characters (a string is a sequence of         *)
(* one-character strings, so that strip() and lower() do real work).       *)
(***************************************************************************)
Absent    == [t |-> "absent", n |-> 0, s |-> <<>>]
JNull     == [t |-> "null",   n |-> 0, s |-> <<>>]
JBool(b)  == [t |-> "bool",   n |-> IF b THEN 1 ELSE 0, s |-> <<>>]
JInt(i)   == [t |-> "int",    n |-> i, s |-> <<>>]
JFloat(d) == [t |-> "float",  n |-> d, s |-> <<>>]
JNaN      == [t |-> "nan",    n |-> 0, s |-> <<>>]
JStr(cs)  == [t |-> "str",    n |-> 0, s |-> cs]
JList     == [t |-> "list",   n |-> 0, s |-> <<>>]
\* Python's None, the result of a failed coercion
None      == [t |-> "none",   n |-> 0, s |-> <<>>]

\* The largest float, in units: float(i) raises OverflowError for an int
\* above it (the model's scale of sys.float_info.max).
DblMax == 1000

BRANCH_COVERAGE_THRESHOLD == 700

Digits == {"0", "1", "2", "3", "4", "5", "6", "7", "8", "9"}

DigitVal(c) ==
  CASE c = "0" -> 0 [] c = "1" -> 1 [] c = "2" -> 2 [] c = "3" -> 3
    [] c = "4" -> 4 [] c = "5" -> 5 [] c = "6" -> 6 [] c = "7" -> 7
    [] c = "8" -> 8 [] c = "9" -> 9

LowerChar(c) ==
  CASE c = "T" -> "t" [] c = "R" -> "r" [] c = "U" -> "u" [] c = "E" -> "e"
    [] c = "Y" -> "y" [] c = "S" -> "s" [] c = "N" -> "n" [] c = "O" -> "o"
    [] OTHER -> c

\* str.lower()
Lower(cs) == [i \in 1..Len(cs) |-> LowerChar(cs[i])]

\* str.strip(): leading and trailing white space removed
RECURSIVE LStrip(_)
LStrip(cs) == IF cs # <<>> /\ Head(cs) = " " THEN LStrip(Tail(cs)) ELSE cs

RECURSIVE RStrip(_)
RStrip(cs) ==
  IF cs # <<>> /\ cs[Len(cs)] = " " THEN RStrip(SubSeq(cs, 1, Len(cs) - 1)) ELSE cs

Strip(cs) == RStrip(LStrip(cs))

TrueWords ==
  { <<"t","r","u","e">>, <<"y","e","s">>, <<"1">>, <<"p","a","s","s">>,
    <<"p","a","s","s","e","d">> }

FalseWords ==
  { <<"f","a","l","s","e">>, <<"n","o">>, <<"0">>, <<"f","a","i","l">>,
    <<"f","a","i","l","e","d">> }

\* The value of a run of decimal digits
RECURSIVE DigitsValue(_)
DigitsValue(cs) ==
  IF cs = <<>> THEN 0
  ELSE 10 * DigitsValue(SubSeq(cs, 1, Len(cs) - 1)) + DigitVal(cs[Len(cs)])

IsDigits(cs) == cs # <<>> /\ \A i \in 1..Len(cs) : cs[i] \in Digits

\* The position of the decimal point, 0 when there is none
DotAt(cs) ==
  IF \E i \in 1..Len(cs) : cs[i] = "."
  THEN CHOOSE i \in 1..Len(cs) : cs[i] = "." /\ \A j \in 1..(i - 1) : cs[j] # "."
  ELSE 0

\* int(text): the decimal integers among the strings of the model; anything
\* else raises ValueError (None here).
ParseInt(cs) == IF IsDigits(cs) THEN JInt(DigitsValue(cs)) ELSE None

\* float(text), in tenths: digits, or digits "." one digit; anything else
\* among the strings of the model raises ValueError (None here).
ParseFloat(cs) ==
  LET d == DotAt(cs)
  IN  IF IsDigits(cs) THEN JFloat(10 * DigitsValue(cs))
      ELSE IF d > 1 /\ Len(cs) = d + 1 /\ IsDigits(SubSeq(cs, 1, d - 1))
              /\ cs[d + 1] \in Digits
           THEN JFloat(10 * DigitsValue(SubSeq(cs, 1, d - 1)) + DigitVal(cs[d + 1]))
           ELSE None

\* The result of a coercion that raised instead of returning
Raised == [t |-> "raised", n |-> 0, s |-> <<>>]

as_bool(value) ==
  IF value.t \in {"absent", "null"} THEN None
  ELSE IF value.t = "bool" THEN value
  ELSE IF value.t = "str"
       THEN LET lowered == Lower(Strip(value.s))
            IN  IF lowered \in TrueWords THEN JBool(TRUE)
                ELSE IF lowered \in FalseWords THEN JBool(FALSE)
                ELSE None
  ELSE None

as_float(value) ==
  IF value.t \in {"absent", "null"} THEN None
  ELSE IF value.t \in {"bool", "int"}
       THEN IF value.n > DblMax \/ value.n < -DblMax THEN Raised
            ELSE JFloat(10 * value.n)
  ELSE IF value.t \in {"float", "nan"} THEN value
  ELSE IF value.t = "str" THEN ParseFloat(Strip(value.s))
  ELSE None

as_int(value) ==
  IF value.t \in {"absent", "null"} THEN None
  ELSE IF value.t = "bool" THEN None
  ELSE IF value.t = "int" THEN value
  ELSE IF value.t = "float" /\ value.n % 10 = 0 THEN JInt(value.n \div 10)
  ELSE IF value.t = "str" THEN ParseInt(Strip(value.s))
  ELSE None

GateKeys == <<"tests_passed", "branch_coverage", "type_checks_passed",
              "critical_issues_count">>

\* branch_coverage > BRANCH_COVERAGE_THRESHOLD on floats: false for a NaN
FloatGt(f, limit) == f.t = "float" /\ f.n > limit
FloatLe(f, limit) == f.t = "float" /\ f.n <= limit

\* A CriterionResult
CriterionResult(met, value, reason) ==
  [met |-> met, value |-> value, reason |-> reason]

\* evaluate(payload), for coerced inputs: the returned object
evaluate_result(tests_passed, branch_coverage, type_checks_passed, critical_issues_count) ==
  LET tests_ok ==
        CriterionResult(tests_passed = JBool(TRUE), tests_passed,
          IF tests_passed # JBool(TRUE) THEN "tests_passed must be true"
          ELSE "tests passed")
      coverage_ok ==
        CriterionResult(
          branch_coverage # None
            /\ FloatGt(branch_coverage, BRANCH_COVERAGE_THRESHOLD),
          branch_coverage,
          IF branch_coverage = None THEN "branch_coverage must be provided"
          ELSE IF FloatLe(branch_coverage, BRANCH_COVERAGE_THRESHOLD)
               THEN "branch_coverage must be > 70.0"
               ELSE "branch coverage above threshold")
      typecheck_ok ==
        CriterionResult(type_checks_passed = JBool(TRUE), type_checks_passed,
          IF type_checks_passed # JBool(TRUE)
          THEN "type_checks_passed must be true" ELSE "type checks passed")
      critical_ok ==
        CriterionResult(critical_issues_count = JInt(0), critical_issues_count,
          IF critical_issues_count = None
          THEN "critical_issues_count must be provided"
          ELSE IF critical_issues_count = JInt(0) THEN "no critical issues"
               ELSE "critical issues must be 0")
      criteria ==
        [k \in Range(GateKeys) |->
           CASE k = "tests_passed" -> tests_ok
             [] k = "branch_coverage" -> coverage_ok
             [] k = "type_checks_passed" -> typecheck_ok
             [] k = "critical_issues_count" -> critical_ok]
      unmet == Filter(GateKeys, {k \in Range(GateKeys) : ~criteria[k].met})
      met_count == Cardinality({k \in Range(GateKeys) : criteria[k].met})
      \* int(round((met_count / 4.0) * 100)): met_count * 25 is exact
      score == (met_count * 100) \div 4
      decision == IF met_count = 4 THEN "approve" ELSE "iterate"
  IN  [ keys |-> {"ok", "decision", "score", "thresholds", "inputs", "criteria",
                  "unmet", "summary"},
        ok |-> TRUE,
        decision |-> decision,
        score |-> score,
        inputs |-> [k \in Range(GateKeys) |-> criteria[k].value],
        criteria |-> criteria,
        unmet |-> unmet,
        summary |-> IF decision = "approve" THEN "Exit criteria met"
                    ELSE "Exit criteria NOT met",
        error |-> "" ]

\* The object main writes when anything raised
ErrorObject(msg) ==
  [ keys |-> {"ok", "error"}, ok |-> FALSE, decision |-> "", score |-> 0,
    inputs |-> [k \in Range(GateKeys) |-> None],
    criteria |-> [k \in Range(GateKeys) |-> CriterionResult(FALSE, None, "")],
    unmet |-> <<>>, summary |-> "", error |-> msg ]

\* evaluate(payload): the four coercions, then the criteria; an exception of
\* a coercion leaves evaluate
evaluate(payload) ==
  LET branch_coverage == as_float(payload["branch_coverage"])
  IN  IF branch_coverage = Raised
      THEN [raised |-> TRUE, msg |-> "int too large to convert to float",
            result |-> ErrorObject("")]
      ELSE [raised |-> FALSE, msg |-> "",
            result |-> evaluate_result(as_bool(payload["tests_passed"]),
                                       branch_coverage,
                                       as_bool(payload["type_checks_passed"]),
                                       as_int(payload["critical_issues_count"]))]

\* What one run of a tool leaves behind
RunResult(out, err, code) == [stdout |-> out, stderr |-> err, exit |-> code]

\* gate_main with the error path made fatal (exit code 1 from the handler)
gate_main_fatal(stdin) ==
  IF stdin.kind \in {"invalid", "nonobject"}
  THEN RunResult(<<ErrorObject("error")>>, <<>>, 1)
  ELSE LET payload == IF stdin.kind = "empty"
                      THEN [k \in {"tests_passed", "branch_coverage",
                                   "type_checks_passed", "critical_issues_count"}
                              |-> Absent]
                      ELSE stdin.payload
           e == evaluate(payload)
       IN  IF e.raised THEN RunResult(<<ErrorObject(e.msg)>>, <<>>, 1)
           ELSE RunResult(<<e.result>>, <<>>, 0)

\* main(): standard input is empty text, text that is no JSON, JSON that is
\* no object, or a JSON object
gate_main(stdin) ==
  IF stdin.kind = "invalid"
  THEN RunResult(<<ErrorObject("Expecting value")>>, <<>>, 0)
  ELSE IF stdin.kind = "nonobject"
  THEN RunResult(<<ErrorObject("Input payload must be a JSON object")>>, <<>>, 0)
  ELSE LET payload == IF stdin.kind = "empty"
                      THEN [k \in Range(GateKeys) |-> Absent]
                      ELSE stdin.payload
           e == evaluate(payload)
       IN  IF e.raised THEN RunResult(<<ErrorObject(e.msg)>>, <<>>, 0)
           ELSE RunResult(<<e.result>>, <<>>, 0)

\* The JSON values a field of the payload takes in the model
GateValues ==
  { Absent, JNull, JBool(TRUE), JBool(FALSE),
    JInt(0), JInt(70), JInt(71), JInt(DblMax + 1),
    JFloat(0), JFloat(700), JFloat(701), JNaN,
    JStr(<<" ", "Y", "E", "S">>), JStr(<<"n", "o">>), JStr(<<"0">>),
    JStr(<<"8", "5", " ">>), JStr(<<"7", "0", ".", "5">>), JList }

NoPayload == [k \in Range(GateKeys) |-> Absent]

GateInputs ==
  { [tool |-> "gate", kind |-> k, payload |-> NoPayload] :
      k \in {"empty", "invalid", "nonobject"} }
  \cup
  { [tool |-> "gate", kind |-> "object", payload |-> p] :
      p \in [Range(GateKeys) -> GateValues] }

InitGate == input \in GateInputs /\ runs = <<>>

\* One run of exit_criteria_checker.py on the input
GateMain ==
  /\ input.tool = "gate"
  /\ runs = <<>>
  /\ runs' = Append(runs, gate_main(input))
  /\ UNCHANGED input

NextGate == GateMain

SpecGate == InitGate /\ [][NextGate]_vars

(***************************************************************************)
(* Part 2: extract_api.py                                                  *)
(*                                                                         *)
(* A name is a sequence of characters.  A module is the sequence of its    *)
(* top-level statements (ast nodes), one per line; a class may hold one    *)
(* nested statement, which ast.walk visits after the top level.            *)
(***************************************************************************)
DunderAll == <<"_", "_", "a", "l", "l", "_", "_">>

UpperChars == {"K", "A", "B"}
LowerCaseChars == {"f", "v", "p", "a", "l"}

\* str.isupper(): at least one cased character and no lower-case one
IsUpper(name) ==
  /\ \E i \in 1..Len(name) : name[i] \in UpperChars
  /\ \A i \in 1..Len(name) : name[i] \notin LowerCaseChars

\* name.startswith("_")
StartsWithUnderscore(name) == Len(name) > 0 /\ name[1] = "_"

NameTarget(id)  == [type |-> "Name", id |-> id]
TupleTarget     == [type |-> "Tuple", id |-> <<>>]

StrElt(cs)      == [type |-> "Constant", str |-> TRUE, value |-> cs]
NonStrElt       == [type |-> "Constant", str |-> FALSE, value |-> <<>>]
ListValue(elts) == [type |-> "List", elts |-> elts]
OtherValue      == [type |-> "Call", elts |-> <<>>]

ClassDef(name, body) ==
  [type |-> "ClassDef", name |-> name, args |-> <<>>, targets |-> <<>>,
   value |-> OtherValue, body |-> body]
FunctionDef(name, args) ==
  [type |-> "FunctionDef", name |-> name, args |-> args, targets |-> <<>>,
   value |-> OtherValue, body |-> <<>>]
Assign(targets, value) ==
  [type |-> "Assign", name |-> <<>>, args |-> <<>>, targets |-> targets,
   value |-> value, body |-> <<>>]

\* The statements nested in the top-level ones, in ast.walk's order
RECURSIVE NestedOf(_)
NestedOf(body) ==
  IF body = <<>> THEN <<>> ELSE Head(body).body \o NestedOf(Tail(body))

\* ast.walk(tree), the statements of it: breadth first
Walk(body) == body \o NestedOf(body)

\* The string constants of a list or tuple literal, in order
RECURSIVE StringElts(_)
StringElts(elts) ==
  IF elts = <<>> THEN <<>>
  ELSE (IF Head(elts).str THEN <<Head(elts).value>> ELSE <<>>)
         \o StringElts(Tail(elts))

AssignsAll(node) ==
  /\ node.type = "Assign"
  /\ \E i \in 1..Len(node.targets) :
       node.targets[i].type = "Name" /\ node.targets[i].id = DunderAll
  /\ node.value.type \in {"List", "Tuple"}

\* all_exports after the scan of lines 23-37: found is FALSE for None
RECURSIVE ScanAll(_, _)
ScanAll(nodes, acc) ==
  IF nodes = <<>> THEN acc
  ELSE ScanAll(Tail(nodes),
               IF AssignsAll(Head(nodes))
               THEN [found |-> TRUE, names |-> StringElts(Head(nodes).value.elts)]
               ELSE acc)

all_exports(body) == ScanAll(Walk(body), [found |-> FALSE, names |-> <<>>])

\* The Name targets of an assignment, in order
RECURSIVE NameIds(_)
NameIds(targets) ==
  IF targets = <<>> THEN <<>>
  ELSE (IF Head(targets).type = "Name" THEN <<Head(targets).id>> ELSE <<>>)
         \o NameIds(Tail(targets))

\* name, symbol_type and signature when the if/elif chain of lines 44-58 is
\* left: the loop over the targets overwrites name, so the last Name target
\* is the one that stays
Candidate(node) ==
  IF node.type = "ClassDef"
  THEN [name |-> node.name, type |-> "class", signature |-> <<"class", node.name>>]
  ELSE IF node.type = "FunctionDef"
  THEN [name |-> node.name, type |-> "function",
        signature |-> <<"def", node.name>> \o node.args]
  ELSE IF node.type = "Assign" /\ NameIds(node.targets) # <<>>
  THEN LET ids == NameIds(node.targets)
           name == ids[Len(ids)]
       IN  [name |-> name,
            type |-> IF IsUpper(name) THEN "constant" ELSE "variable",
            signature |-> <<>>]
  ELSE [name |-> <<>>, type |-> "", signature |-> <<>>]

\* The test of lines 61-62
Included(name, exports) ==
  /\ name # <<>>
  /\ ~StartsWithUnderscore(name)
  /\ (~exports.found \/ name \in Range(exports.names))

\* str.replace(old, new) on characters
RECURSIVE Replace(_, _, _)
Replace(cs, old, new) ==
  IF Len(cs) < Len(old) THEN cs
  ELSE IF SubSeq(cs, 1, Len(old)) = old
       THEN new \o Replace(SubSeq(cs, Len(old) + 1, Len(cs)), old, new)
       ELSE <<Head(cs)>> \o Replace(Tail(cs), old, new)

module_name(filepath) ==
  Replace(Replace(filepath, <<".", "p", "y">>, <<>>), <<"/">>, <<".">>)

RECURSIVE Symbols(_, _, _, _)
Symbols(body, line, exports, module) ==
  IF body = <<>> THEN <<>>
  ELSE LET c == Candidate(Head(body))
       IN  (IF Included(c.name, exports)
            THEN << [name |-> c.name, type |-> c.type, signature |-> c.signature,
                     module |-> module, line |-> line] >>
            ELSE <<>>)
           \o Symbols(Tail(body), line + 1, exports, module)

\* extract_public_api(content, filepath)
extract_public_api(content, filepath) ==
  IF content.kind = "syntaxerror" THEN <<>>
  ELSE Symbols(content.body, 1, all_exports(content.body), module_name(filepath))

\* The entry point, lines 76-84
extract_main(in) ==
  IF ~in.has_arg
  THEN RunResult(<<>>, <<"Usage: extract_api.py <filepath>">>, 1)
  ELSE RunResult(<<extract_public_api(in, in.filepath)>>, <<>>, 0)

(***************************************************************************)
(* Part 3: validate_docstrings.py                                          *)
(*                                                                         *)
(* A docstring, as ast.get_docstring returns it, is a sequence of lines;   *)
(* a line is a sequence of tokens: a word (a maximal run of \w), ":",      *)
(* " " (one blank) .  The regular expressions read the text, the lines     *)
(* joined by "\n".                                                         *)
(***************************************************************************)
WhiteSpace == {" ", "\n"}

IsWord(tok) == tok \notin WhiteSpace \cup {":"}

\* "\n".join(lines)
RECURSIVE JoinLines(_)
JoinLines(lines) ==
  IF lines = <<>> THEN <<>>
  ELSE IF Len(lines) = 1 THEN lines[1]
  ELSE lines[1] \o <<"\n">> \o JoinLines(Tail(lines))

\* The first position at or after k that holds no white space (Len + 1 when
\* there is none): where a greedy \s* started at k stops
RECURSIVE SkipWs(_, _)
SkipWs(text, k) ==
  IF k <= Len(text) /\ text[k] \in WhiteSpace THEN SkipWs(text, k + 1) ELSE k

\* The words that end in Arg, Args, Parameter or Parameters (the pattern is
\* not anchored on the left), among the words of the model
GoogleHeaderWords == {"Args", "Arg", "Parameters", "Parameter", "kwArgs"}

\* The words that end, in any case, in Return, Returns, Yield or Yields
ReturnWords == {"Returns", "Return", "returns", "Yields", "Yield", "RETURNS"}

\* (?:Args?|Parameters?):\s*\n\s+(\w+) matched at k: the position of the
\* captured word, 0 when there is no match at k.  \s*\n\s+ is a run of white
\* space with a line break that is not its last character.
GoogleMatchAt(text, k) ==
  IF k + 1 <= Len(text) /\ text[k] \in GoogleHeaderWords /\ text[k + 1] = ":"
  THEN LET i == SkipWs(text, k + 2)
       IN  IF /\ i <= Len(text)
              /\ IsWord(text[i])
              /\ \E m \in (k + 2)..(i - 2) : text[m] = "\n"
           THEN i ELSE 0
  ELSE 0

\* re.findall scans left to right and resumes after each match
RECURSIVE GoogleScan(_, _)
GoogleScan(text, k) ==
  IF k > Len(text) THEN <<>>
  ELSE LET i == GoogleMatchAt(text, k)
       IN  IF i = 0 THEN GoogleScan(text, k + 1)
           ELSE <<text[i]>> \o GoogleScan(text, i + 1)

\* :param\s+(\w+): matched at k: the position of the captured word, or 0
SphinxMatchAt(text, k) ==
  IF k + 1 <= Len(text) /\ text[k] = ":" /\ text[k + 1] = "param"
  THEN LET i == SkipWs(text, k + 2)
       IN  IF /\ i > k + 2
              /\ i + 1 <= Len(text)
              /\ IsWord(text[i])
              /\ text[i + 1] = ":"
           THEN i ELSE 0
  ELSE 0

RECURSIVE SphinxScan(_, _)
SphinxScan(text, k) ==
  IF k > Len(text) THEN <<>>
  ELSE LET i == SphinxMatchAt(text, k)
       IN  IF i = 0 THEN SphinxScan(text, k + 1)
           ELSE <<text[i]>> \o SphinxScan(text, i + 2)

\* ^\s*(\w+)\s*: with re.MULTILINE, matched at the line start k: the position
\* of the captured word, or 0.  Both \s* may run over line breaks.
NumpyMatchAt(text, k) ==
  IF k = 1 \/ text[k - 1] = "\n"
  THEN LET i == SkipWs(text, k)
           c == SkipWs(text, i + 1)
       IN  IF i <= Len(text) /\ IsWord(text[i]) /\ c <= Len(text) /\ text[c] = ":"
           THEN i ELSE 0
  ELSE 0

RECURSIVE NumpyScan(_, _)
NumpyScan(text, k) ==
  IF k > Len(text) THEN <<>>
  ELSE LET i == NumpyMatchAt(text, k)
       IN  IF i = 0 THEN NumpyScan(text, k + 1)
           ELSE <<text[i]>> \o NumpyScan(text, SkipWs(text, i + 1) + 1)

\* params before list(set(params)): the three findall results, extended in
\* this order.  A docstring is [present, lines]; "not docstring" holds for
\* None and for the empty text.
params_found(docstring) ==
  LET text == JoinLines(docstring.lines)
  IN  IF ~docstring.present \/ text = <<>> THEN <<>>
      ELSE GoogleScan(text, 1) \o SphinxScan(text, 1) \o NumpyScan(text, 1)

\* The orders list(set(params)) may come out in: a set of strings iterates in
\* the order of the hashes, which are salted per process
SetOrders(S) ==
  { o \in [1..Cardinality(S) -> S] : \A e \in S : \E i \in DOMAIN o : o[i] = e }

\* parse_docstring_params(docstring): every list it may return
parse_docstring_params(docstring) == SetOrders(Range(params_found(docstring)))

\* has_return_doc with Returns? left out of the pattern (Yields? alone)
has_return_doc_yields_only(docstring) ==
  LET text == JoinLines(docstring.lines)
  IN  /\ docstring.present
      /\ \E k \in 1..(Len(text) - 1) :
           text[k] \in {"Yields", "Yield"} /\ text[k + 1] = ":"

\* has_return_doc(docstring): re.search of (?:Returns?|Yields?): ignoring case
has_return_doc(docstring) ==
  LET text == JoinLines(docstring.lines)
  IN  /\ docstring.present
      /\ \E k \in 1..(Len(text) - 1) : text[k] \in ReturnWords /\ text[k + 1] = ":"

Issue(type, severity, text, names, line) ==
  [type |-> type, severity |-> severity,
   description |-> [text |-> text, names |-> names], line |-> line]

\* The issues with the test of lines 101 and 111 forgotten: an issue is
\* appended even for an empty list
issues_unguarded(node, missing_params, extra_params, has_return_doc_flag) ==
  IF ~node.docstring.present
  THEN << Issue("missing", "error", "Function has no docstring", <<node.name>>,
                node.lineno) >>
  ELSE << Issue("incomplete", "warning", "Missing documentation for parameters",
                missing_params, node.lineno) >>
       \o << Issue("mismatch", "warning", "Documented parameters not in signature",
                   extra_params, node.lineno) >>
       \o (IF node.returns /\ ~has_return_doc_flag
           THEN << Issue("incomplete", "warning",
                         "Function has return annotation but no return documentation",
                         <<>>, node.lineno) >>
           ELSE <<>>)

\* The issues with the else of line 100 forgotten: the checks run for a
\* function without docstring too
issues_no_else(node, missing_params, extra_params, has_return_doc_flag) ==
  (IF ~node.docstring.present
   THEN << Issue("missing", "error", "Function has no docstring", <<node.name>>,
                 node.lineno) >>
   ELSE <<>>)
  \o (IF missing_params # <<>>
      THEN << Issue("incomplete", "warning", "Missing documentation for parameters",
                    missing_params, node.lineno) >>
      ELSE <<>>)
  \o (IF extra_params # <<>>
      THEN << Issue("mismatch", "warning", "Documented parameters not in signature",
                    extra_params, node.lineno) >>
      ELSE <<>>)
  \o (IF node.returns /\ ~has_return_doc_flag
      THEN << Issue("incomplete", "warning",
                    "Function has return annotation but no return documentation",
                    <<>>, node.lineno) >>
      ELSE <<>>)

\* issues, lines 89-129
issues_of(node, missing_params, extra_params, has_return_doc_flag) ==
  IF ~node.docstring.present
  THEN << Issue("missing", "error", "Function has no docstring", <<node.name>>,
                node.lineno) >>
  ELSE (IF missing_params # <<>>
        THEN << Issue("incomplete", "warning", "Missing documentation for parameters",
                      missing_params, node.lineno) >>
        ELSE <<>>)
       \o (IF extra_params # <<>>
           THEN << Issue("mismatch", "warning", "Documented parameters not in signature",
                         extra_params, node.lineno) >>
           ELSE <<>>)
       \o (IF node.returns /\ ~has_return_doc_flag
           THEN << Issue("incomplete", "warning",
                         "Function has return annotation but no return documentation",
                         <<>>, node.lineno) >>
           ELSE <<>>)

\* The loop body with extra_params cut after its first name (a break in the
\* comprehension's place)
validation_first_extra(node, documented_params) ==
  LET actual_params == Filter(node.args, Range(node.args) \ {"self", "cls"})
      missing_params == Filter(actual_params,
                               Range(actual_params) \ Range(documented_params))
      all_extra == Filter(documented_params,
                          Range(documented_params) \ Range(actual_params))
      extra_params == IF all_extra = <<>> THEN <<>> ELSE <<all_extra[1]>>
      has_return_doc_flag == has_return_doc(node.docstring)
      issues == issues_of(node, missing_params, extra_params, has_return_doc_flag)
  IN  [ name |-> node.name,
        line |-> node.lineno,
        has_docstring |-> node.docstring.present,
        param_count |-> Len(actual_params),
        documented_params |-> documented_params,
        actual_params |-> actual_params,
        missing_params |-> missing_params,
        extra_params |-> extra_params,
        has_return_doc |-> has_return_doc_flag,
        has_return_annotation |-> node.returns,
        issues |-> issues,
        valid |-> Len(issues) = 0 ]

\* The loop body with cls left among the parameters to document (self alone
\* excluded)
validation_keeps_cls(node, documented_params) ==
  LET actual_params == Filter(node.args, Range(node.args) \ {"self"})
      missing_params == Filter(actual_params,
                               Range(actual_params) \ Range(documented_params))
      extra_params == Filter(documented_params,
                             Range(documented_params) \ Range(actual_params))
      has_return_doc_flag == has_return_doc(node.docstring)
      issues == issues_of(node, missing_params, extra_params, has_return_doc_flag)
  IN  [ name |-> node.name,
        line |-> node.lineno,
        has_docstring |-> node.docstring.present,
        param_count |-> Len(actual_params),
        documented_params |-> documented_params,
        actual_params |-> actual_params,
        missing_params |-> missing_params,
        extra_params |-> extra_params,
        has_return_doc |-> has_return_doc_flag,
        has_return_annotation |-> node.returns,
        issues |-> issues,
        valid |-> Len(issues) = 0 ]

\* One pass of the loop body of lines 65-148 for a FunctionDef node, with
\* documented_params the list parse_docstring_params returned
validation(node, documented_params) ==
  LET actual_params == Filter(node.args, Range(node.args) \ {"self", "cls"})
      missing_params == Filter(actual_params,
                               Range(actual_params) \ Range(documented_params))
      extra_params == Filter(documented_params,
                             Range(documented_params) \ Range(actual_params))
      has_return_doc_flag == has_return_doc(node.docstring)
      issues == issues_of(node, missing_params, extra_params, has_return_doc_flag)
  IN  [ name |-> node.name,
        line |-> node.lineno,
        has_docstring |-> node.docstring.present,
        param_count |-> Len(actual_params),
        documented_params |-> documented_params,
        actual_params |-> actual_params,
        missing_params |-> missing_params,
        extra_params |-> extra_params,
        has_return_doc |-> has_return_doc_flag,
        has_return_annotation |-> node.returns,
        issues |-> issues,
        valid |-> Len(issues) = 0 ]

\* validate_file(filepath): every result it may return, for the functions of
\* the file in ast.walk's order
RECURSIVE Validations(_)
Validations(nodes) ==
  IF nodes = <<>> THEN {<<>>}
  ELSE { <<validation(Head(nodes), d)>> \o rest :
           d \in parse_docstring_params(Head(nodes).docstring),
           rest \in Validations(Tail(nodes)) }

validate_file(file) ==
  IF file.kind = "syntaxerror"
  THEN { [error |-> TRUE, validations |-> <<>>] }
  ELSE { [error |-> FALSE, validations |-> v] : v \in Validations(file.functions) }

\* The entry point with the exit on a syntax error forgotten: the (empty)
\* list of validations is printed
validate_main_lenient(in) ==
  IF ~in.has_arg
  THEN { RunResult(<<>>, <<"Usage: validate_docstrings.py <filepath>">>, 1) }
  ELSE { RunResult(<<result.validations>>, <<>>, 0) : result \in validate_file(in) }

\* The entry point, lines 153-165: every run it may make
validate_main(in) ==
  IF ~in.has_arg
  THEN { RunResult(<<>>, <<"Usage: validate_docstrings.py <filepath>">>, 1) }
  ELSE { IF result.error
         THEN RunResult(<<>>, <<"Syntax error">>, 1)
         ELSE RunResult(<<result.validations>>, <<>>, 0) :
           result \in validate_file(in) }

(***************************************************************************)
(* The inputs of the two analysis tools, and their runs                    *)
(***************************************************************************)
\* The longest module body (top-level statements) handed to extract_api.py
MaxBody == 2

\* The longest docstring, in lines, handed to validate_docstrings.py
MaxDocLines == 3

ExNames == { <<"f">>, <<"_", "p">>, <<"K">> }

ExTargets == { NameTarget(n) : n \in ExNames \cup {DunderAll} } \cup { TupleTarget }

\* a = ...   and   a = b = ...
ExTargetLists ==
  { <<a>> : a \in ExTargets } \cup { <<a, b>> : a \in ExTargets, b \in ExTargets }

ExportLists ==
  { ListValue(<< StrElt(<<"_", "p">>) >>),
    ListValue(<< StrElt(<<"K">>), NonStrElt >>),
    OtherValue }

\* The value of an assignment is read only when a target is __all__
AssignNodes ==
  { Assign(t, OtherValue) :
      t \in { l \in ExTargetLists : NameTarget(DunderAll) \notin Range(l) } }
  \cup
  { Assign(t, v) :
      t \in { l \in ExTargetLists : NameTarget(DunderAll) \in Range(l) },
      v \in ExportLists }

ClassNodes ==
  { ClassDef(n, <<>>) : n \in ExNames }
  \cup
  { ClassDef(<<"K">>,
             << Assign(<<NameTarget(DunderAll)>>, ListValue(<<StrElt(<<"f">>)>>)) >>) }

FunctionNodes ==
  { FunctionDef(n, <<>>) : n \in ExNames } \cup { FunctionDef(<<"f">>, <<"x", "y">>) }

\* Any other statement: an import, an expression, an annotated assignment
OtherNode ==
  [type |-> "Expr", name |-> <<>>, args |-> <<>>, targets |-> <<>>,
   value |-> OtherValue, body |-> <<>>]

ExNodes == AssignNodes \cup ClassNodes \cup FunctionNodes \cup {OtherNode}

FilePath == <<"a", "/", "b", ".", "p", "y">>

ExtractInputs ==
  { [tool |-> "extract", has_arg |-> TRUE, kind |-> "module", body |-> b,
     filepath |-> FilePath] : b \in SeqsUpTo(ExNodes, MaxBody) }
  \cup
  { [tool |-> "extract", has_arg |-> a, kind |-> "syntaxerror", body |-> <<>>,
     filepath |-> FilePath] : a \in BOOLEAN }

\* The lines a docstring is made of
DocLines ==
  { <<"t", " ", "t">>,                    \* prose
    <<":", "param", " ", "x", ":">>,      \* :param x:
    <<"Args", ":">>,                      \* Args:
    <<" ", "x", ":">>,                    \*     x: ...
    <<"y", " ", ":">>,                    \* y : ...
    <<" ", "y">>,                         \*     y
    <<"Returns", ":">>,                   \* Returns:
    <<>> }                                \* a blank line

Indented(line) == line # <<>> /\ line[1] = " "

\* What ast.get_docstring (inspect.cleandoc) returns: no indentation on the
\* first line, no blank line first or last, and the common indentation of the
\* following lines removed
IsCleanDoc(lines) ==
  \/ lines = <<>>
  \/ /\ ~Indented(lines[1])
     /\ lines[1] # <<>>
     /\ lines[Len(lines)] # <<>>
     /\ LET rest == { i \in 2..Len(lines) : lines[i] # <<>> }
        IN  rest = {} \/ \E i \in rest : ~Indented(lines[i])

NoDocstring == [present |-> FALSE, lines |-> <<>>]

Docstrings ==
  { NoDocstring }
  \cup
  { [present |-> TRUE, lines |-> l] :
      l \in { d \in SeqsUpTo(DocLines, MaxDocLines) : IsCleanDoc(d) } }

\* node.args.args, the names
ArgLists ==
  { <<>>, <<"self">>, <<"cls">>, <<"cls", "self">>, <<"x">>, <<"x", "y">>,
    <<"y", "x">>, <<"self", "x">> }

FunctionDefs ==
  { [name |-> "f", args |-> a, returns |-> r, docstring |-> d, lineno |-> 1] :
      a \in ArgLists, r \in BOOLEAN, d \in Docstrings }

\* A second function of the file
Helper ==
  [name |-> "g", args |-> <<"x">>, returns |-> FALSE, docstring |-> NoDocstring,
   lineno |-> 9]

ValidateInputs ==
  { [tool |-> "validate", has_arg |-> TRUE, kind |-> "module", functions |-> fs] :
      fs \in {<<>>} \cup { <<f>> : f \in FunctionDefs }
               \cup { <<f, Helper>> : f \in { g \in FunctionDefs :
                                                 Len(g.docstring.lines) <= 1 } } }
  \cup
  { [tool |-> "validate", has_arg |-> a, kind |-> "syntaxerror", functions |-> <<>>] :
      a \in BOOLEAN }

Init == input \in ExtractInputs \cup ValidateInputs /\ runs = <<>>

\* The run of extract_api.py on the input
ExtractMain ==
  /\ input.tool = "extract"
  /\ runs = <<>>
  /\ runs' = Append(runs, extract_main(input))
  /\ UNCHANGED input

\* The run of validate_docstrings.py on the input
ValidateMain ==
  /\ input.tool = "validate"
  /\ runs = <<>>
  /\ \E r \in validate_main(input) : runs' = Append(runs, r)
  /\ UNCHANGED input

Next == ExtractMain \/ ValidateMain

\* extract_api.py run again, in a new process, on the unchanged input
ExtractAgain ==
  /\ input.tool = "extract"
  /\ Len(runs) = 1
  /\ runs' = Append(runs, extract_main(input))
  /\ UNCHANGED input

\* validate_docstrings.py run again, in a new process, on the unchanged input
ValidateAgain ==
  /\ input.tool = "validate"
  /\ Len(runs) = 1
  /\ \E r \in validate_main(input) : runs' = Append(runs, r)
  /\ UNCHANGED input

NextRerun == ExtractMain \/ ValidateMain \/ ExtractAgain \/ ValidateAgain

\* Each tool runs once on its input
Spec == Init /\ [][Next]_vars

\* Each tool runs on its input, and again on the same input
SpecRerun == Init /\ [][NextRerun]_vars

(***************************************************************************)
(* The gate's claims                                                       *)
(***************************************************************************)
\* float() of the branch_coverage field raises OverflowError
CoverageOverflows(stdin) ==
  stdin.kind = "object"
  /\ stdin.payload["branch_coverage"].t = "int"
  /\ stdin.payload["branch_coverage"].n > DblMax

\* The four criteria as the claim states them, on the coerced fields; the
\* coverage of an integer is that integer, whatever its size
CriteriaMet(p) ==
  { k \in Range(GateKeys) :
      CASE k = "tests_passed" -> as_bool(p[k]) = JBool(TRUE)
        [] k = "type_checks_passed" -> as_bool(p[k]) = JBool(TRUE)
        [] k = "critical_issues_count" -> as_int(p[k]) = JInt(0)
        [] k = "branch_coverage" ->
             IF p[k].t = "int" THEN p[k].n > 70
             ELSE as_float(p[k]).t = "float" /\ as_float(p[k]).n > 700 }

GateVerdictAsClaimed(out, met) ==
  /\ out.decision = (IF met = Range(GateKeys) THEN "approve" ELSE "iterate")
  /\ out.score = 25 * Cardinality(met)
  /\ out.score \in {0, 25, 50, 75, 100}
  /\ out.unmet = Filter(GateKeys, Range(GateKeys) \ met)

\* C6, as stated: for every JSON-object input the decision is approve iff all
\* four criteria are met and iterate otherwise, the score is the percentage
\* of criteria met, and unmet lists exactly the criteria not met.
C6_AsStated ==
  \A i \in 1..Len(runs) :
    input.tool = "gate" /\ input.kind = "object" =>
      GateVerdictAsClaimed(runs[i].stdout[1], CriteriaMet(input.payload))

\* What does hold of evaluate: the verdict is as claimed on every JSON-object
\* input on which evaluate returns.
GateVerdictWhenEvaluateReturns ==
  \A i \in 1..Len(runs) :
    input.tool = "gate" /\ input.kind = "object" /\ ~CoverageOverflows(input) =>
      GateVerdictAsClaimed(runs[i].stdout[1], CriteriaMet(input.payload))

OneObjectExitZero(r) == Len(r.stdout) = 1 /\ r.stderr = <<>> /\ r.exit = 0

IsErrorObject(out) == out.keys = {"ok", "error"} /\ ~out.ok

IsVerdictObject(out) == out.ok /\ "decision" \in out.keys

\* C7, as stated: main writes exactly one JSON object and returns 0; input
\* that is not a JSON object gives {ok: false, error} without a decision
\* key, a JSON object gives ok == true and a decision key.
C7_AsStated ==
  \A i \in 1..Len(runs) :
    input.tool = "gate" =>
      /\ OneObjectExitZero(runs[i])
      /\ input.kind # "object" => IsErrorObject(runs[i].stdout[1])
      /\ input.kind = "object" => IsVerdictObject(runs[i].stdout[1])

\* C7, amended: main writes exactly one JSON object and returns 0; non-blank
\* input that is not a JSON object gives {ok: false, error} without a
\* decision key; blank input is read as the empty object, and blank input or
\* a JSON object gives ok == true and a decision key, except that a
\* branch_coverage integer beyond the float range gives {ok: false, error}.
C7_MainTotal ==
  \A i \in 1..Len(runs) :
    input.tool = "gate" =>
      /\ OneObjectExitZero(runs[i])
      /\ input.kind \in {"invalid", "nonobject"} => IsErrorObject(runs[i].stdout[1])
      /\ CoverageOverflows(input) => IsErrorObject(runs[i].stdout[1])
      /\ input.kind \in {"empty", "object"} /\ ~CoverageOverflows(input)
           => IsVerdictObject(runs[i].stdout[1])

\* A JSON array has been answered
C7_Witness ==
  /\ input.tool = "gate" /\ input.kind = "nonobject"
  /\ Len(runs) > 0
  /\ runs[1].stdout[1].error = "Input payload must be a JSON object"

(***************************************************************************)
(* The claims about extract_api.py                                         *)
(***************************************************************************)
\* The names a top-level statement defines: a class, a function, or every
\* simple target of an assignment
DefinedNames(node) ==
  IF node.type \in {"ClassDef", "FunctionDef"} THEN <<node.name>>
  ELSE IF node.type = "Assign" THEN NameIds(node.targets)
  ELSE <<>>

ExtractRan(i) ==
  input.tool = "extract" /\ input.has_arg /\ input.kind = "module" /\ i \in 1..Len(runs)

\* The records of the output that name n on line l
RecordsOf(out, n, l) == { k \in 1..Len(out) : out[k].name = n /\ out[k].line = l }

\* C1, as stated, for the statements that define one name (a class, a
\* function, an assignment to one simple target): the name is in the output
\* iff (no allow-list was found and the name does not start with "_") or (an
\* allow-list was found and the name is a member of it).
C1_AsStated ==
  \A i \in 1..Len(runs) :
    ExtractRan(i) =>
      LET out == runs[i].stdout[1]
          exports == all_exports(input.body)
      IN  \A l \in 1..Len(input.body) :
            \A n \in Range(DefinedNames(input.body[l])) :
              Len(DefinedNames(input.body[l])) = 1 =>
              (RecordsOf(out, n, l) # {}
                <=> \/ ~exports.found /\ ~StartsWithUnderscore(n)
                    \/ exports.found /\ n \in Range(exports.names))

\* C2, as stated: with no allow-list, no name of the output starts with "_",
\* and every name that does not start with "_" and is a top-level class, a
\* top-level function or a simple target of a top-level assignment has its
\* own record, of kind constant (all upper-case) or variable for a target.
C2_AsStated ==
  \A i \in 1..Len(runs) :
    ExtractRan(i) /\ ~all_exports(input.body).found =>
      LET out == runs[i].stdout[1]
      IN  /\ \A k \in 1..Len(out) : ~StartsWithUnderscore(out[k].name)
          /\ \A k \in 1..Len(out) :
               out[k].name \in Range(DefinedNames(input.body[out[k].line]))
          /\ \A l \in 1..Len(input.body) :
               \A n \in Range(DefinedNames(input.body[l])) :
                 ~StartsWithUnderscore(n) =>
                   /\ RecordsOf(out, n, l) # {}
                   /\ input.body[l].type = "Assign" =>
                        \A k \in RecordsOf(out, n, l) :
                          out[k].type = (IF IsUpper(n) THEN "constant" ELSE "variable")

(***************************************************************************)
(* The claims about validate_docstrings.py                                 *)
(***************************************************************************)
ValidateRan(i) ==
  input.tool = "validate" /\ input.has_arg /\ input.kind = "module"
  /\ i \in 1..Len(runs)

\* The records one run printed, one per function of the file
RecordsPrinted(i) == runs[i].stdout[1]

IsMissingIssue(issue) == issue.type = "missing" /\ issue.severity = "error"

\* C3: a function without docstring gets exactly one issue, missing/error,
\* whatever its parameters and its return annotation, and valid == false.
C3_NoDocstring ==
  \A i \in 1..Len(runs) :
    ValidateRan(i) =>
      \A j \in 1..Len(input.functions) :
        ~input.functions[j].docstring.present =>
          LET rec == RecordsPrinted(i)[j]
          IN  /\ Len(rec.issues) = 1
              /\ IsMissingIssue(rec.issues[1])
              /\ rec.issues[1].description.names = <<input.functions[j].name>>
              /\ ~rec.valid
              /\ ~rec.has_docstring

\* A function (x, y) -> annotated, without docstring, has been validated
C3_Witness ==
  /\ ValidateRan(1)
  /\ Len(input.functions) = 1
  /\ ~input.functions[1].docstring.present
  /\ input.functions[1].args = <<"x", "y">>
  /\ input.functions[1].returns
  /\ ~RecordsPrinted(1)[1].valid

\* C8: on a syntax error extract_api.py prints an empty JSON array and exits
\* 0, and validate_docstrings.py prints the error to standard error, exits 1
\* and prints no JSON (no record of any function).
C8_SyntaxError ==
  \A i \in 1..Len(runs) :
    input.kind = "syntaxerror" /\ input.has_arg =>
      /\ input.tool = "extract" =>
           runs[i] = RunResult(<< <<>> >>, <<>>, 0)
      /\ input.tool = "validate" =>
           /\ runs[i].stdout = <<>>
           /\ runs[i].stderr # <<>>
           /\ runs[i].exit = 1

\* validate_docstrings.py has run on a file with a syntax error
C8_Witness ==
  /\ input.tool = "validate" /\ input.kind = "syntaxerror" /\ input.has_arg
  /\ Len(runs) > 0
  /\ runs[1].exit = 1

\* The missing-parameter issues of a record
MissingParamIssues(rec) ==
  { k \in 1..Len(rec.issues) :
      rec.issues[k].description.text = "Missing documentation for parameters" }

\* The formal parameters other than self and cls that the docstring does not
\* document, in the order of the formal parameters
Undocumented(fn) ==
  Filter(fn.args, (Range(fn.args) \ {"self", "cls"}) \ Range(params_found(fn.docstring)))

\* C10: a function with a docstring gets a missing-parameter issue
\* (incomplete/warning) iff a formal parameter other than self/cls is not
\* documented, at most one such issue, and the issue lists exactly the
\* undocumented parameters in formal-parameter order; the docstring
\* ":param x:" with the parameters (x, y) gives one such issue, citing y and
\* not x, and valid == false.
C10_MissingParams ==
  \A i \in 1..Len(runs) :
    ValidateRan(i) =>
      \A j \in 1..Len(input.functions) :
        LET fn == input.functions[j]
            rec == RecordsPrinted(i)[j]
            found == MissingParamIssues(rec)
        IN  fn.docstring.present =>
              /\ found # {} <=> Undocumented(fn) # <<>>
              /\ Cardinality(found) <= 1
              /\ \A k \in found :
                   /\ rec.issues[k].type = "incomplete"
                   /\ rec.issues[k].severity = "warning"
                   /\ rec.issues[k].description.names = Undocumented(fn)
              /\ fn.docstring.lines = << <<":", "param", " ", "x", ":">> >>
                   /\ fn.args = <<"x", "y">>
                 => /\ Cardinality(found) = 1
                    /\ \A k \in found : rec.issues[k].description.names = <<"y">>
                    /\ ~rec.valid

\* The docstring ":param x:" of a function (x, y) has been validated
C10_Witness ==
  /\ ValidateRan(1)
  /\ Len(input.functions) = 1
  /\ input.functions[1].docstring.lines = << <<":", "param", " ", "x", ":">> >>
  /\ input.functions[1].args = <<"x", "y">>
  /\ MissingParamIssues(RecordsPrinted(1)[1]) # {}

\* C5, as stated: a second run on the unchanged input prints what the first
\* run printed, byte for byte.
C5_AsStated ==
  \A i \in 1..Len(runs) : \A j \in 1..Len(runs) : runs[i] = runs[j]

\* An issue without the order its names are listed in
Unordered(issue) ==
  [type |-> issue.type, severity |-> issue.severity, text |-> issue.description.text,
   names |-> Range(issue.description.names)]

\* A record without the order of the lists that come from the set
UpToSetOrder(rec) ==
  [rec EXCEPT !.documented_params = Range(rec.documented_params),
              !.extra_params = Range(rec.extra_params),
              !.issues = [k \in 1..Len(rec.issues) |-> Unordered(rec.issues[k])]]

\* C5, amended: a second run of extract_api.py prints what the first printed,
\* byte for byte; a second run of validate_docstrings.py prints the same but
\* for the order of the names in documented_params, in extra_params and in
\* the "Documented parameters not in signature" text, which follow the
\* iteration order of a set of strings and differ from process to process.
C5_SameUpToSetOrder ==
  \A i \in 1..Len(runs) : \A j \in 1..Len(runs) :
    /\ input.tool = "extract" => runs[i] = runs[j]
    /\ input.tool = "validate" =>
         /\ runs[i].exit = runs[j].exit
         /\ runs[i].stderr = runs[j].stderr
         /\ Len(runs[i].stdout) = Len(runs[j].stdout)
         /\ \A o \in 1..Len(runs[i].stdout) :
              /\ Len(runs[i].stdout[o]) = Len(runs[j].stdout[o])
              /\ \A k \in 1..Len(runs[i].stdout[o]) :
                   UpToSetOrder(runs[i].stdout[o][k]) = UpToSetOrder(runs[j].stdout[o][k])

\* Two runs of validate_docstrings.py on one input have printed different
\* texts
C5_Witness ==
  /\ input.tool = "validate"
  /\ Len(runs) = 2
  /\ runs[1] # runs[2]
  /\ runs[1].stdout[1][1].extra_params # runs[2].stdout[1][1].extra_params

ReturnsLine == <<"Returns", ":">>

\* The docstring without its "Returns:" lines
WithoutReturnsLine(docstring) ==
  [present |-> docstring.present,
   lines |-> Filter(docstring.lines, Range(docstring.lines) \ {ReturnsLine})]

IsReturnIssue(issue) ==
  /\ issue.type = "incomplete" /\ issue.severity = "warning"
  /\ issue.description.text
       = "Function has return annotation but no return documentation"

\* C4, as stated: for a function with a return annotation and a docstring
\* with a "Returns:" line, no issue is return-related, and the same function
\* with that line removed gets the same issues plus exactly one
\* incomplete/warning issue, with the same documented and extra parameters.
C4_AsStated ==
  \A i \in 1..Len(runs) :
    ValidateRan(i) /\ Len(input.functions) > 0 =>
      LET fn == input.functions[1]
          rec == RecordsPrinted(i)[1]
          without == [fn EXCEPT !.docstring = WithoutReturnsLine(fn.docstring)]
      IN  fn.returns /\ fn.docstring.present /\ ReturnsLine \in Range(fn.docstring.lines)
            /\ IsCleanDoc(without.docstring.lines)
          => /\ \A k \in 1..Len(rec.issues) : ~IsReturnIssue(rec.issues[k])
             /\ \A d \in parse_docstring_params(without.docstring) :
                  LET rec2 == validation(without, d)
                  IN  /\ Range(rec2.documented_params) = Range(rec.documented_params)
                      /\ Range(rec2.extra_params) = Range(rec.extra_params)
                      /\ Len(rec2.issues) = Len(rec.issues) + 1
                      /\ { Unordered(rec2.issues[k]) : k \in 1..Len(rec2.issues) }
                           = { Unordered(rec.issues[k]) : k \in 1..Len(rec.issues) }
                             \cup { [type |-> "incomplete", severity |-> "warning",
                                     text |-> "Function has return annotation but no return documentation",
                                     names |-> {}] }

ReturnIssues(rec) == { k \in 1..Len(rec.issues) : IsReturnIssue(rec.issues[k]) }

\* C4, amended: for a function with a return annotation and a docstring with
\* a "Returns:" line no issue is return-related, and the same function with
\* that line removed (no other Returns:/Yields: left) gets exactly one
\* return-documentation issue, incomplete/warning.  The rest is not
\* unchanged: the line "Returns:" is itself read as a documented parameter,
\* so with the line "Returns" is in documented_params, and in extra_params
\* and a mismatch issue when no formal parameter has that name.
C4_ReturnIssue ==
  \A i \in 1..Len(runs) :
    ValidateRan(i) /\ Len(input.functions) > 0 =>
      LET fn == input.functions[1]
          rec == RecordsPrinted(i)[1]
          without == [fn EXCEPT !.docstring = WithoutReturnsLine(fn.docstring)]
      IN  fn.returns /\ fn.docstring.present /\ ReturnsLine \in Range(fn.docstring.lines)
          => /\ ReturnIssues(rec) = {}
             /\ rec.has_return_doc
             /\ "Returns" \in Range(rec.documented_params)
             /\ "Returns" \in Range(rec.extra_params)
             /\ \E k \in 1..Len(rec.issues) :
                  /\ rec.issues[k].type = "mismatch"
                  /\ "Returns" \in Range(rec.issues[k].description.names)
             /\ \A d \in parse_docstring_params(without.docstring) :
                  LET rec2 == validation(without, d)
                  IN  /\ Cardinality(ReturnIssues(rec2)) = 1
                      /\ ~rec2.has_return_doc
                      /\ ~rec2.valid

\* A function (x) -> annotated whose docstring is ":param x:" and "Returns:"
\* has been validated
C4_Witness ==
  /\ ValidateRan(1)
  /\ Len(input.functions) = 1
  /\ input.functions[1].returns
  /\ input.functions[1].args = <<"x">>
  /\ input.functions[1].docstring.lines
       = << <<":", "param", " ", "x", ":">>, ReturnsLine >>
  /\ RecordsPrinted(1)[1].extra_params = <<"Returns">>

\* A line that documents a parameter, or heads a parameter section
ParameterLines ==
  { <<":", "param", " ", "x", ":">>, <<"Args", ":">>, <<" ", "x", ":">>,
    <<"y", " ", ":">> }

OnlyReceivers(args) == Range(args) \subseteq {"self", "cls"}

\* C9, as stated: a function without formal parameters whose docstring has no
\* parameter section has no missing and no extra parameter, and no issue
\* when it has no return annotation either, whatever other lines the
\* docstring holds; and a function of self and/or cls only gets what the
\* function without parameters gets.
C9_AsStated ==
  \A i \in 1..Len(runs) :
    ValidateRan(i) /\ Len(input.functions) > 0 =>
      LET fn == input.functions[1]
          rec == RecordsPrinted(i)[1]
      IN  fn.docstring.present /\ OnlyReceivers(fn.args) =>
            /\ rec.actual_params = <<>>
            /\ rec = [validation([fn EXCEPT !.args = <<>>], rec.documented_params)
                        EXCEPT !.name = rec.name]
            /\ Range(fn.docstring.lines) \cap ParameterLines = {} =>
                 /\ rec.missing_params = <<>>
                 /\ rec.extra_params = <<>>
                 /\ ~fn.returns => rec.issues = <<>> /\ rec.valid

\* C9, amended: a function without formal parameters whose docstring has no
\* parameter section and no other text the patterns of
\* parse_docstring_params match (no line that starts with a word and a colon,
\* such as "Returns:") has no missing and no extra parameter, and no issue
\* when it has no return annotation either; a line "Returns:" makes
\* "Returns" an extra parameter and the function invalid.  A function of
\* self and/or cls only gets what the function without parameters gets.
C9_NoCapturedName ==
  \A i \in 1..Len(runs) :
    ValidateRan(i) /\ Len(input.functions) > 0 =>
      LET fn == input.functions[1]
          rec == RecordsPrinted(i)[1]
      IN  fn.docstring.present /\ OnlyReceivers(fn.args) =>
            /\ rec.actual_params = <<>>
            /\ rec.missing_params = <<>>
            /\ rec = validation([fn EXCEPT !.args = <<>>], rec.documented_params)
            /\ Range(fn.docstring.lines) \cap (ParameterLines \cup {ReturnsLine}) = {} =>
                 /\ rec.documented_params = <<>>
                 /\ rec.extra_params = <<>>
                 /\ ~fn.returns => rec.issues = <<>> /\ rec.valid
            /\ ReturnsLine \in Range(fn.docstring.lines) =>
                 "Returns" \in Range(rec.extra_params) /\ ~rec.valid

\* A method (cls, self) with a docstring of prose and an indented word has
\* been validated and found valid
C9_Witness ==
  /\ ValidateRan(1)
  /\ Len(input.functions) = 1
  /\ input.functions[1].args = <<"cls", "self">>
  /\ ~input.functions[1].returns
  /\ input.functions[1].docstring.lines = << <<"t", " ", "t">>, <<>>, <<"t", " ", "t">> >>
  /\ RecordsPrinted(1)[1].valid

====
